---- MODULE Spec2Model ----
(***************************************************************************)
(* Model of package errx (nordew/go-errx): the Error type, its Builder,    *)
(* the free functions IsCode / GetCode / GetMessage / Wrap / WrapIfErr,    *)
(* and the parts of the standard library they call (errors.As, errors.Is,  *)
(* fmt's %v of an error).                                                  *)
(*                                                                         *)
(* Error values live in a heap `errs`; an address is a positive integer.   *)
(* A *Error pointer is 0 (nil) or an address.  An `error` interface value  *)
(* is Nil (the nil interface), TypedNil (a non-nil interface that holds a  *)
(* nil *Error: what a nil *Error becomes when it is converted to error) or *)
(* an address.                                                             *)
(***************************************************************************)
EXTENDS Integers, Sequences, FiniteSets, TLC

VARIABLES errs, b, last, built, panicked

vars == <<errs, b, last, built, panicked>>

\* ---------------------------------------------------------------- bounds
MaxErrs == 2

\* ------------------------------------------------------------- constants
Internal == "INTERNAL"
NotFound == "NOT_FOUND"
Codes == {Internal, NotFound}
Msgs == {"a"}

Nil == 0
TypedNil == -1

\* A *Error converted to the error interface: a nil pointer becomes a
\* non-nil interface value.
ToError(p) == IF p = 0 THEN TypedNil ELSE p

\* --------------------------------------------------------------- results
\* The outcome of a call: a value, or a run-time panic (nil dereference).
Ret(v) == [panic |-> FALSE, val |-> v]
Panic == [panic |-> TRUE]

\* ------------------------------------------------------------------ heap
ErrorObj(code, message, err) ==
    [typ |-> "Error", Code |-> code, Message |-> message, Err |-> err]

IsTyped(h, v) == v > 0 /\ h[v].typ = "Error"
IsForeign(h, v) == v > 0 /\ h[v].typ = "foreign"
\* the dynamic type of the interface value is *Error
HasTypeError(h, v) == v = TypedNil \/ IsTyped(h, v)

\* --------------------------------------------------------- (*Error).Error
RECURSIVE Error_Error(_, _)
\* a variant of Error that leaves the cause out
Error_Error_NoCause(h, e) ==
    IF e = 0 THEN Panic ELSE Ret("[" \o h[e].Code \o "] " \o h[e].Message)

\* fmt's %v of a non-nil error value: the value's Error(); a panic of a nil
\* pointer receiver is caught by fmt and printed as <nil>.
FmtV(h, v) ==
    IF v = TypedNil THEN "<nil>"
    ELSE IF IsTyped(h, v) THEN Error_Error(h, v).val
    ELSE h[v].s

Error_Error(h, e) ==
    IF e = 0 THEN Panic
    ELSE IF h[e].Err # Nil
         THEN Ret("[" \o h[e].Code \o "] " \o h[e].Message \o ": " \o FmtV(h, h[e].Err))
         ELSE Ret("[" \o h[e].Code \o "] " \o h[e].Message)

\* (*Error).Unwrap
Error_Unwrap(h, e) == IF e = 0 THEN Panic ELSE Ret(h[e].Err)

\* err.Error() through the error interface
ErrorString(h, v) ==
    IF HasTypeError(h, v) THEN Error_Error(h, IF v = TypedNil THEN 0 ELSE v)
    ELSE Ret(h[v].s)

\* fmt.Errorf(msg) and fmt.Errorf(msg + ": %w", cause): the text is fixed
\* when the value is made; with %w the value unwraps to cause.
FmtErrorf(h, msg, cause) ==
    [typ |-> "foreign",
     s   |-> IF cause = Nil THEN msg ELSE msg \o ": " \o FmtV(h, cause),
     err |-> cause]

\* ------------------------------------------------------------- errors.As
RECURSIVE As(_, _)
\* errors.As(err, &e) with e of type *Error: [ok, e]
As(h, err) ==
    IF err = Nil THEN [ok |-> FALSE, e |-> 0]
    ELSE IF HasTypeError(h, err)
         THEN [ok |-> TRUE, e |-> IF err = TypedNil THEN 0 ELSE err]
         ELSE As(h, h[err].err)

\* a variant of Is that also compares the messages
Error_Is_SameMessage(h, e, target) ==
    LET t == As(h, target)
    IN  IF ~t.ok THEN Ret(FALSE)
        ELSE IF e = 0 \/ t.e = 0 THEN Panic
        ELSE Ret(h[e].Code = h[t.e].Code /\ h[e].Message = h[t.e].Message)

\* (*Error).Is
Error_Is(h, e, target) ==
    LET t == As(h, target)
    IN  IF ~t.ok THEN Ret(FALSE)
        ELSE IF e = 0 \/ t.e = 0 THEN Panic
        ELSE Ret(h[e].Code = h[t.e].Code)

\* ------------------------------------------------------------- errors.Is
RECURSIVE is(_, _, _)
is(h, err, target) ==
    IF err = target THEN Ret(TRUE)
    ELSE IF HasTypeError(h, err)
         THEN LET e == IF err = TypedNil THEN 0 ELSE err
                  m == Error_Is(h, e, target)
              IN  IF m.panic THEN Panic
                  ELSE IF m.val THEN Ret(TRUE)
                  ELSE LET u == Error_Unwrap(h, e)
                       IN  IF u.panic THEN Panic
                           ELSE IF u.val = Nil THEN Ret(FALSE)
                           ELSE is(h, u.val, target)
         ELSE IF h[err].err = Nil THEN Ret(FALSE)
         ELSE is(h, h[err].err, target)

ErrorsIs(h, err, target) ==
    IF err = Nil \/ target = Nil THEN Ret(err = target)
    ELSE is(h, err, target)

\* ------------------------------------------------- IsCode / GetCode / ...
\* a variant of IsCode that accepts the code of any Typed Error of the chain
RECURSIVE IsCode_AnyLink(_, _, _)
IsCode_AnyLink(h, err, code) ==
    IF err = Nil THEN Ret(FALSE)
    ELSE LET a == As(h, err)
         IN  IF a.ok
             THEN IF a.e = 0 THEN Panic
                  ELSE IF h[a.e].Code = code THEN Ret(TRUE)
                  ELSE IsCode_AnyLink(h, h[a.e].Err, code)
             ELSE Ret(FALSE)

IsCode(h, err, code) ==
    IF err = Nil THEN Ret(FALSE)
    ELSE LET a == As(h, err)
         IN  IF a.ok
             THEN IF a.e = 0 THEN Panic ELSE Ret(h[a.e].Code = code)
             ELSE Ret(FALSE)

GetCode(h, err) ==
    IF err = Nil THEN Ret("")
    ELSE LET a == As(h, err)
         IN  IF a.ok
             THEN IF a.e = 0 THEN Panic ELSE Ret(h[a.e].Code)
             ELSE Ret(Internal)

GetMessage(h, err) ==
    IF err = Nil THEN Ret("")
    ELSE LET a == As(h, err)
         IN  IF a.ok
             THEN IF a.e = 0 THEN Panic ELSE Ret(h[a.e].Message)
             ELSE ErrorString(h, err)

\* --------------------------------------------------------------- Builder
\* fmt.Sprintf over a format cut into pieces: a literal, or the verb "%v".
RECURSIVE Sprintf(_, _)
Sprintf(format, args) ==
    IF format = <<>>
    THEN IF args = <<>> THEN "" ELSE "%!(EXTRA string=" \o Head(args) \o ")"
    ELSE IF Head(format) = "%v"
         THEN IF args = <<>>
              THEN "%!v(MISSING)" \o Sprintf(Tail(format), args)
              ELSE Head(args) \o Sprintf(Tail(format), Tail(args))
         ELSE Head(format) \o Sprintf(Tail(format), args)

New(code) == [code |-> code, message |-> "", err |-> Nil]
NewNotFound == [code |-> NotFound, message |-> "", err |-> Nil]
NewInternal == [code |-> Internal, message |-> "", err |-> Nil]

WithMessage(bd, msg) == [bd EXCEPT !.message = msg]
WithCause(bd, err) == [bd EXCEPT !.err = err]
WithMessagef(bd, format, args) == [bd EXCEPT !.message = Sprintf(format, args)]

\* a variant of Build that keeps one Error and fills it again
Build_Reuse(h, bd) ==
    IF Len(h) > 0 /\ h[Len(h)].typ = "Error"
    THEN [h |-> [h EXCEPT ![Len(h)] = ErrorObj(bd.code, bd.message, bd.err)],
          p |-> Len(h)]
    ELSE [h |-> Append(h, ErrorObj(bd.code, bd.message, bd.err)), p |-> Len(h) + 1]

\* Build allocates a new Error: [h: the heap after, p: the *Error returned]
Build(h, bd) ==
    [h |-> Append(h, ErrorObj(bd.code, bd.message, bd.err)), p |-> Len(h) + 1]

\* (*Builder).Error: Build's pointer as an error interface value
Builder_Error(h, bd) ==
    LET r == Build(h, bd) IN [h |-> r.h, v |-> ToError(r.p)]

\* the legacy shortcuts: [bd: the builder after, h, p]
WithDescription(h, bd, desc) ==
    LET b1 == [bd EXCEPT !.message = desc]
        r  == Build(h, b1)
    IN  [bd |-> b1, h |-> r.h, p |-> r.p]

\* a variant that sets the cause only when one is given
WithDescriptionAndCause_SkipNil(h, bd, desc, cause) ==
    LET b1 == [bd EXCEPT !.message = desc]
        b2 == IF cause = Nil THEN b1 ELSE [b1 EXCEPT !.err = cause]
        r  == Build(h, b2)
    IN  [bd |-> b2, h |-> r.h, p |-> r.p]

WithDescriptionAndCause(h, bd, desc, cause) ==
    LET b1 == [bd EXCEPT !.message = desc]
        b2 == [b1 EXCEPT !.err = cause]
        r  == Build(h, b2)
    IN  [bd |-> b2, h |-> r.h, p |-> r.p]

\* ------------------------------------------------------ Wrap / WrapIfErr
\* a variant of Wrap without the nil check
Wrap_NoNilCheck(h, err, code, message) ==
    [h |-> Append(h, ErrorObj(code, message, err)), p |-> Len(h) + 1]

\* a variant of Wrap whose Error is its own cause
Wrap_SelfCause(h, err, code, message) ==
    IF err = Nil THEN [h |-> h, p |-> 0]
    ELSE [h |-> Append(h, ErrorObj(code, message, Len(h) + 1)), p |-> Len(h) + 1]

Wrap(h, err, code, message) ==
    IF err = Nil THEN [h |-> h, p |-> 0]
    ELSE [h |-> Append(h, ErrorObj(code, message, err)), p |-> Len(h) + 1]

WrapIfErr(h, err, code, message) ==
    IF err = Nil THEN [h |-> h, v |-> Nil]
    ELSE LET r == Wrap(h, err, code, message) IN [h |-> r.h, v |-> ToError(r.p)]

\* ----------------------------------------------------------------- state
\* What the last call was and what it returned: kind "ptr" for a *Error,
\* "iface" for an error, "none" for a call that returns the builder.
Call(op, kind, res) == [op |-> op, kind |-> kind, res |-> res]

\* The error values a caller holds: nil, every error made so far, and the
\* last call's result as an error.
Held ==
    {Nil} \cup (1..Len(errs))
          \cup (IF last.kind = "ptr" THEN {ToError(last.res)} ELSE {})

Init ==
    /\ errs = <<>>
    /\ b \in {New(c) : c \in Codes}
    /\ last = Call("New", "none", 0)
    /\ built = 0
    /\ panicked = ""

\* --------------------------------------------------------------- actions
Running == panicked = ""

\* the formats and arguments WithMessagef is called with here
FormatCalls == { << <<"a">>, <<>> >>, << <<"%v">>, <<"a">> >> }
ForeignMsgs == {"x"}

\* the Typed Errors a caller calls a method of
HeldPtrs == {p \in 1..Len(errs) : IsTyped(errs, p)}

CallNew ==
    \E c \in Codes :
        /\ Running
        /\ b' = New(c)
        /\ last' = Call("New", "none", 0)
        /\ built' = 0
        /\ UNCHANGED <<errs, panicked>>

CallNewNotFound ==
    /\ Running
    /\ b' = NewNotFound
    /\ last' = Call("NewNotFound", "none", 0)
    /\ built' = 0
    /\ UNCHANGED <<errs, panicked>>

CallNewInternal ==
    /\ Running
    /\ b' = NewInternal
    /\ last' = Call("NewInternal", "none", 0)
    /\ built' = 0
    /\ UNCHANGED <<errs, panicked>>

CallWithMessage ==
    \E msg \in Msgs :
        /\ Running
        /\ b' = WithMessage(b, msg)
        /\ last' = Call("WithMessage", "none", 0)
        /\ built' = 0
        /\ UNCHANGED <<errs, panicked>>

CallWithMessagef ==
    \E fa \in FormatCalls :
        /\ Running
        /\ b' = WithMessagef(b, fa[1], fa[2])
        /\ last' = Call("WithMessagef", "none", 0)
        /\ built' = 0
        /\ UNCHANGED <<errs, panicked>>

CallWithCause ==
    \E err \in Held :
        /\ Running
        /\ b' = WithCause(b, err)
        /\ last' = Call("WithCause", "none", 0)
        /\ built' = 0
        /\ UNCHANGED <<errs, panicked>>

CallBuild ==
    /\ Running
    /\ Len(errs) < MaxErrs
    /\ LET r == Build(errs, b)
       IN  /\ errs' = r.h
           /\ last' = Call("Build", "ptr", r.p)
           /\ built' = r.p
    /\ UNCHANGED <<b, panicked>>

CallBuilderError ==
    /\ Running
    /\ Len(errs) < MaxErrs
    /\ LET r == Builder_Error(errs, b)
       IN  /\ errs' = r.h
           /\ last' = Call("Error", "iface", r.v)
           /\ built' = r.v
    /\ UNCHANGED <<b, panicked>>

CallWithDescription ==
    \E desc \in Msgs :
        /\ Running
        /\ Len(errs) < MaxErrs
        /\ LET r == WithDescription(errs, b, desc)
           IN  /\ b' = r.bd
               /\ errs' = r.h
               /\ last' = Call("WithDescription", "ptr", r.p)
               /\ built' = r.p
        /\ UNCHANGED panicked

CallWithDescriptionAndCause ==
    \E desc \in Msgs, cause \in Held :
        /\ Running
        /\ Len(errs) < MaxErrs
        /\ LET r == WithDescriptionAndCause(errs, b, desc, cause)
           IN  /\ b' = r.bd
               /\ errs' = r.h
               /\ last' = Call("WithDescriptionAndCause", "ptr", r.p)
               /\ built' = r.p
        /\ UNCHANGED panicked

CallWrap ==
    \E err \in Held, code \in Codes, message \in Msgs :
        /\ Running
        /\ err # Nil => Len(errs) < MaxErrs
        /\ LET r == Wrap(errs, err, code, message)
           IN  /\ errs' = r.h
               /\ last' = Call("Wrap", "ptr", r.p)
        /\ UNCHANGED <<b, built, panicked>>

CallWrapIfErr ==
    \E err \in Held, code \in Codes, message \in Msgs :
        /\ Running
        /\ err # Nil => Len(errs) < MaxErrs
        /\ LET r == WrapIfErr(errs, err, code, message)
           IN  /\ errs' = r.h
               /\ last' = Call("WrapIfErr", "iface", r.v)
        /\ UNCHANGED <<b, built, panicked>>

\* the caller makes an error of its own
CallFmtErrorf ==
    \E msg \in ForeignMsgs, cause \in Held :
        /\ Running
        /\ Len(errs) < MaxErrs
        /\ errs' = Append(errs, FmtErrorf(errs, msg, cause))
        /\ last' = Call("fmt.Errorf", "iface", Len(errs) + 1)
        /\ UNCHANGED <<b, built, panicked>>

\* The inspecting calls change nothing.  A panic ends the program: from then
\* on nothing runs, and none of its values is left to be looked at.
Outcome(op, r) ==
    IF r.panic
    THEN /\ panicked' = op
         /\ errs' = <<>>
         /\ last' = Call(op, "none", 0)
         /\ built' = 0
         /\ UNCHANGED b
    ELSE UNCHANGED vars

CallIsCode ==
    \E err \in Held, code \in Codes :
        Running /\ Outcome("IsCode", IsCode(errs, err, code))

CallGetCode ==
    \E err \in Held : Running /\ Outcome("GetCode", GetCode(errs, err))

CallGetMessage ==
    \E err \in Held : Running /\ Outcome("GetMessage", GetMessage(errs, err))

CallErrorsIs ==
    \E err \in Held, target \in Held :
        Running /\ Outcome("errors.Is", ErrorsIs(errs, err, target))

CallError_Error ==
    \E e \in HeldPtrs : Running /\ Outcome("(*Error).Error", Error_Error(errs, e))

CallError_Unwrap ==
    \E e \in HeldPtrs : Running /\ Outcome("(*Error).Unwrap", Error_Unwrap(errs, e))

CallError_Is ==
    \E e \in HeldPtrs, target \in Held :
        Running /\ Outcome("(*Error).Is", Error_Is(errs, e, target))

Next ==
    \/ CallNew
    \/ CallNewNotFound
    \/ CallNewInternal
    \/ CallWithMessage
    \/ CallWithMessagef
    \/ CallWithCause
    \/ CallBuild
    \/ CallBuilderError
    \/ CallWithDescription
    \/ CallWithDescriptionAndCause
    \/ CallWrap
    \/ CallWrapIfErr
    \/ CallFmtErrorf
    \/ CallIsCode
    \/ CallGetCode
    \/ CallGetMessage
    \/ CallErrorsIs
    \/ CallError_Error
    \/ CallError_Unwrap
    \/ CallError_Is

\* ================================================================ claims
\* the links of err's chain, outermost first: err, what it unwraps to, ...
\* (a nil *Error has no fields and ends the chain)
CauseOf(h, v) == IF IsTyped(h, v) THEN h[v].Err ELSE h[v].err

RECURSIVE ChainFrom(_, _, _)
ChainFrom(h, v, fuel) ==
    IF v = Nil \/ fuel = 0 THEN <<>>
    ELSE IF v = TypedNil THEN <<v>>
    ELSE <<v>> \o ChainFrom(h, CauseOf(h, v), fuel - 1)

Chain(h, v) == ChainFrom(h, v, Len(h) + 1)

Links(h, v) == {Chain(h, v)[i] : i \in 1..Len(Chain(h, v))}

\* the first Typed Error of err's chain, 0 when there is none
FirstTyped(h, v) ==
    LET ch == Chain(h, v)
        at == {i \in 1..Len(ch) : IsTyped(h, ch[i])}
    IN  IF at = {} THEN 0
        ELSE ch[CHOOSE i \in at : \A j \in at : i <= j]

TypedErrors == {e \in 1..Len(errs) : IsTyped(errs, e)}

\* ------------------------------------------------------------------- C1
Segment(h, e) == "[" \o h[e].Code \o "] " \o h[e].Message

\* the own string form of a link that is no Typed Error: a foreign error's
\* text, <nil> for a nil *Error
OwnString(h, v) == IF v = TypedNil THEN "<nil>" ELSE h[v].s

\* the Typed Errors at the head of the chain as bracketed segments joined by
\* ": ", then the string of the first link that is not a Typed Error
RECURSIVE Joined(_, _, _)
Joined(h, ch, i) ==
    IF ~IsTyped(h, ch[i]) THEN OwnString(h, ch[i])
    ELSE IF i = Len(ch) THEN Segment(h, ch[i])
    ELSE Segment(h, ch[i]) \o ": " \o Joined(h, ch, i + 1)

\* C1: the string form of a Typed Error with code C, message M and cause E is
\* "[C] M" when E is absent and "[C] M: " + string(E) when E is present, so
\* that a chain of n Typed Errors gives n bracketed segments joined by ": ".
C1_Format ==
    \A e \in TypedErrors :
        /\ errs[e].Err = Nil =>
               Error_Error(errs, e) = Ret("[" \o errs[e].Code \o "] " \o errs[e].Message)
        /\ errs[e].Err # Nil =>
               Error_Error(errs, e) =
                   Ret("[" \o errs[e].Code \o "] " \o errs[e].Message \o ": "
                           \o Joined(errs, Chain(errs, errs[e].Err), 1))
        /\ Error_Error(errs, e) = Ret(Joined(errs, Chain(errs, e), 1))

\* a chain of two Typed Errors, the inner one without a cause: two segments
C1_Witness ==
    \E e \in TypedErrors :
        /\ IsTyped(errs, errs[e].Err)
        /\ errs[errs[e].Err].Err = Nil
        /\ Error_Error(errs, e) =
               Ret(Segment(errs, e) \o ": " \o Segment(errs, errs[e].Err))

\* ------------------------------------------------------------------- C2
\* C2: Wrap and WrapIfErr return absent exactly when err is absent; for a
\* present err they return a new Typed Error with the given code and message
\* whose cause is err, and unwrapping it gives err, which is left unchanged.
C2_Wrap ==
    \A err \in Held, code \in Codes, message \in Msgs :
        LET r == Wrap(errs, err, code, message)
            w == WrapIfErr(errs, err, code, message)
        IN  /\ r.p = 0 <=> err = Nil
            /\ w.v = Nil <=> err = Nil
            /\ err = Nil => r.h = errs /\ w.h = errs
            /\ err # Nil =>
                   /\ r.p \notin 1..Len(errs) /\ r.p \in 1..Len(r.h)
                   /\ r.h[r.p] = ErrorObj(code, message, err)
                   /\ Error_Unwrap(r.h, r.p) = Ret(err)
                   /\ \A i \in 1..Len(errs) : r.h[i] = errs[i]
                   /\ w.v = r.p /\ w.h = r.h

\* Wrap has just wrapped a present error
C2_Witness ==
    /\ last.op = "Wrap"
    /\ last.res > 0
    /\ errs[last.res].Err # Nil
    /\ Error_Unwrap(errs, last.res) = Ret(errs[last.res].Err)

\* ------------------------------------------------------------------- C3
\* C3: for a present error E, IsCode(Wrap(E, C, M), C) is true and
\* IsCode(Wrap(E, C, M), C2) is false for every other code C2, also when E or
\* an error deeper in E's chain is a Typed Error with code C2.
C3_IsCodeOfWrap ==
    \A E \in Held \ {Nil}, C \in Codes, M \in Msgs :
        LET r == Wrap(errs, E, C, M)
        IN  /\ IsCode(r.h, ToError(r.p), C) = Ret(TRUE)
            /\ \A C2 \in Codes \ {C} : IsCode(r.h, ToError(r.p), C2) = Ret(FALSE)

\* Wrap has just wrapped a Typed Error of another code
C3_Witness ==
    /\ last.op = "Wrap"
    /\ last.res > 0
    /\ IsTyped(errs, errs[last.res].Err)
    /\ errs[errs[last.res].Err].Code # errs[last.res].Code
    /\ IsCode(errs, last.res, errs[last.res].Code) = Ret(TRUE)

\* ------------------------------------------------------------------- C4
\* the targets with no *Error anywhere in their chain
ForeignOnly(h, t) == t # Nil /\ \A l \in Links(h, t) : IsForeign(h, l)

C5_NoPanic ==
    /\ panicked = ""
    /\ IsCode(errs, Nil, Internal) = Ret(FALSE)
    /\ GetCode(errs, Nil) = Ret("")
    /\ GetMessage(errs, Nil) = Ret("")
    /\ Wrap(errs, Nil, Internal, "a").p = 0
    /\ WrapIfErr(errs, Nil, Internal, "a").v = Nil

\* ------------------------------------------------------------------- C6
\* C6: GetCode(err) is the empty code for an absent err, the code of the
\* first Typed Error of err's chain when there is one, and Internal when the
\* chain has no Typed Error.
C6_GetCode ==
    \A err \in Held :
        GetCode(errs, err) =
            IF err = Nil THEN Ret("")
            ELSE IF FirstTyped(errs, err) # 0
                 THEN Ret(errs[FirstTyped(errs, err)].Code)
                 ELSE Ret(Internal)

\* ------------------------------------------------------------------- C7
BuildOps == {"Build", "Error", "WithDescription", "WithDescriptionAndCause"}

\* what a build call returned is a Typed Error with the builder's fields
C7_Snapshot ==
    last.op \in BuildOps =>
        /\ last.res \in 1..Len(errs)
        /\ errs[last.res] = ErrorObj(b.code, b.message, b.err)

\* with no setter called since the last build, building again gives the
\* same string
C7_SameString ==
    built # 0 =>
        LET r == Build(errs, b)
        IN  Error_Error(r.h, r.p) = Error_Error(errs, built)

\* a step leaves every error made before it as it was, and what a build
\* call returns was not there before
C7_Frame ==
    panicked' = "" =>
        /\ \A i \in 1..Len(errs) : i <= Len(errs') /\ errs'[i] = errs[i]
        /\ (last'.op \in BuildOps /\ <<errs, last>> # <<errs', last'>>) =>
               last'.res \notin 1..Len(errs)

\* C7: every Build returns a new Typed Error with the Builder's code, message
\* and cause at the moment of the call; two Builds with no setter in between
\* have the same string form; no later operation changes a Typed Error built
\* earlier.
C7_BuilderSnapshots ==
    /\ [](C7_Snapshot /\ C7_SameString)
    /\ [][C7_Frame]_vars

\* built, then a setter, then built again: two different snapshots
C7_Witness ==
    /\ Len(errs) = 2
    /\ last.op = "Build"
    /\ built = 2
    /\ IsTyped(errs, 1)
    /\ errs[1].Code = errs[2].Code
    /\ errs[1].Message # errs[2].Message
    /\ errs[1].Err = Nil
    /\ errs[2].Err = 1

\* ------------------------------------------------------------------- C8
\* C8: from every Builder state WithDescription(d) returns the same Typed
\* Error as WithMessage(d).Build(), and WithDescriptionAndCause(d, c) the
\* same as WithMessage(d).WithCause(c).Build(), also for an absent c; both
\* paths leave the Builder in the same state.
C8_LegacyEqualsFluent ==
    /\ \A d \in Msgs :
           LET legacy == WithDescription(errs, b, d)
               fb     == WithMessage(b, d)
               fluent == Build(errs, fb)
           IN  /\ legacy.h[legacy.p] = fluent.h[fluent.p]
               /\ legacy.h = fluent.h
               /\ legacy.bd = fb
    /\ \A d \in Msgs, c \in Held :
           LET legacy == WithDescriptionAndCause(errs, b, d, c)
               fb     == WithCause(WithMessage(b, d), c)
               fluent == Build(errs, fb)
           IN  /\ legacy.h[legacy.p] = fluent.h[fluent.p]
               /\ legacy.h = fluent.h
               /\ legacy.bd = fb

\* WithDescriptionAndCause has just built with an absent cause, after an
\* error was made that a Builder could have had as its cause
C8_Witness ==
    /\ last.op = "WithDescriptionAndCause"
    /\ Len(errs) = 2
    /\ errs[last.res].Err = Nil
    /\ b.err = Nil
    /\ b.message = errs[last.res].Message

\* ------------------------------------------------------------------- C9
\* what is reached from the errors of S by one or more unwrap steps
RECURSIVE Unwrapped(_, _, _)
Unwrapped(h, S, fuel) ==
    LET nxt == {CauseOf(h, x) : x \in S} \cap (1..Len(h))
    IN  IF fuel = 0 \/ nxt = {} THEN {}
        ELSE nxt \cup Unwrapped(h, nxt, fuel - 1)

\* C9: every cause chain is acyclic: no error is reached from itself by one
\* or more unwrap steps.
C9_Acyclic ==
    \A e \in 1..Len(errs) : e \notin Unwrapped(errs, {e}, Len(errs))

\* a chain of two errors made one after the other
C9_Witness ==
    /\ Len(errs) = 2
    /\ last.op \in {"Wrap", "WrapIfErr"}
    /\ IsTyped(errs, 1)
    /\ errs[2].Err = 1
    /\ Unwrapped(errs, {2}, 2) = {1}

\* ------------------------------------------------------------------ C10
\* C10: for a present err whose chain has a Typed Error, IsCode(err, c) is
\* true exactly when GetCode(err) is c; for a present err whose chain has no
\* Typed Error, IsCode(err, c) is false for every c although GetCode(err) is
\* Internal.
C10_IsCodeGetCode ==
    \A err \in Held \ {Nil}, c \in Codes :
        IF FirstTyped(errs, err) # 0
        THEN (IsCode(errs, err, c) = Ret(TRUE)) <=> (GetCode(errs, err) = Ret(c))
        ELSE /\ IsCode(errs, err, c) = Ret(FALSE)
             /\ GetCode(errs, err) = Ret(Internal)

Spec == Init /\ [][Next]_vars
====
